---- MODULE Spec2Model ----
(***************************************************************************)
(* Model of crawler.js, the SRF Super League highlight crawler.            *)
(*                                                                         *)
(* A run loads teams.json, spielplan.json and links.json, selects the      *)
(* fixtures to search (getMatchesToSearch), and for every fixture issues   *)
(* its search queries one after the other until a clip is accepted.  The   *)
(* link store is written at the end of the run if a link was found.        *)
(*                                                                         *)
(* JavaScript strings are sequences of one-character strings, so that      *)
(* toLowerCase, includes, concatenation and equality are computed as the   *)
(* code computes them.  Instants are milliseconds since the model's day 0, *)
(* 00:00 UTC.  An absent (undefined) property of an object is a field      *)
(* that is not in the record's DOMAIN.                                     *)
(***************************************************************************)
EXTENDS Integers, Sequences, FiniteSets, TLC

VARIABLES
    tz,               \* time zone of the host the script runs on
    now,              \* the host's clock (ms)
    store,            \* links.json on disk: NULL (no file) or [lastUpdated, matches]
    pc,               \* "idle" (no process), "fetch" (await fetch), "pause" (await timer)
    exitCode,         \* exit status of the process once it has ended, NONE while it runs
    testMatchday,     \* crawl: testMatchday (NONE in normal mode)
    links,            \* crawl: links (the store as loaded, then updated in memory)
    matchesToSearch,  \* crawl: matchesToSearch
    mi,               \* position of the outer loop over matchesToSearch
    combinedSearches, \* crawl: combinedSearches of the current fixture
    qi,               \* position of the inner loop over combinedSearches
    results,          \* crawl: results of the last search of the current fixture
    foundVideo,       \* crawl: foundVideo
    videoType,        \* crawl: videoType ("null" for null)
    foundCount,       \* crawl: foundCount
    issued,           \* history: query positions searched for the current fixture
    probe             \* input and verdict of a single validity check (SpecDate)

vars == <<tz, now, store, pc, exitCode, testMatchday, links, matchesToSearch, mi,
          combinedSearches, qi, results, foundVideo, videoType, foundCount, issued,
          probe>>

\* JavaScript null / undefined where an object is expected
NULL == [null |-> TRUE]

\* a number that may be null is a sequence of at most one number
NONE == <<>>

-----------------------------------------------------------------------------
(* Strings *)

UpperCase == <<"A","B","C","D","E","F","G","H","I","J","K","L","M",
               "N","O","P","Q","R","S","T","U","V","W","X","Y","Z">>
LowerCase == <<"a","b","c","d","e","f","g","h","i","j","k","l","m",
               "n","o","p","q","r","s","t","u","v","w","x","y","z">>

\* String.prototype.toLowerCase, one character
LowerChar(c) ==
    IF \E i \in 1..26 : UpperCase[i] = c
    THEN LowerCase[CHOOSE i \in 1..26 : UpperCase[i] = c]
    ELSE c

\* String.prototype.toLowerCase
toLowerCase(s) == [i \in 1..Len(s) |-> LowerChar(s[i])]

\* String.prototype.includes: sub occurs in s as a contiguous substring
includes(s, sub) ==
    \E i \in 0..(Len(s) - Len(sub)) : SubSeq(s, i + 1, i + Len(sub)) = sub

\* Array.prototype.includes: strict equality with an element
arrayIncludes(arr, x) == \E i \in 1..Len(arr) : arr[i] = x

\* decimal digits of a small non-negative integer (template literal of a number)
Digit(d) == <<"0","1","2","3","4","5","6","7","8","9">>[d + 1]
NumStr(n) == IF n < 10 THEN <<Digit(n)>> ELSE <<Digit(n \div 10), Digit(n % 10)>>

\* property access with the "|| default" idiom of the code
Get(obj, f, default) == IF f \in DOMAIN obj THEN obj[f] ELSE default

-----------------------------------------------------------------------------
(* Time *)

HOUR_MS == 60 * 60 * 1000
DAY_MS == 1000 * 60 * 60 * 24

\* the zones of the hosts the script runs on: a server on UTC, or the
\* maintainer's machine (the shell script over the matchdays runs it locally)
TimeZones == {"UTC", "Europe/Zurich"}

\* Europe/Zurich leaves daylight saving time on day 3 at 01:00 UTC
\* (03:00 CEST becomes 02:00 CET); UTC has no offset.
DstEnd == 3 * DAY_MS + HOUR_MS

\* LocalTZA(t, isUTC) of ECMAScript: the offset of local time from UTC, for an
\* instant (isUTC) or for a local time value
LocalTZA(zone, t, isUTC) ==
    CASE zone = "UTC" -> 0
      [] zone = "Europe/Zurich" ->
            IF (IF isUTC THEN t ELSE t - 2 * HOUR_MS) < DstEnd
            THEN 2 * HOUR_MS ELSE HOUR_MS

\* Date.prototype.setHours(0, 0, 0, 0): the instant of local midnight of the
\* local calendar day of instant t
setHoursZero(zone, t) ==
    LET local == t + LocalTZA(zone, t, TRUE)
        midnight == (local \div DAY_MS) * DAY_MS
    IN  midnight - LocalTZA(zone, midnight, FALSE)

\* new Date("YYYY-MM-DD"): a date-only string is UTC midnight of that day
ParseDateOnly(day) == day * DAY_MS

-----------------------------------------------------------------------------
(* Input files and the clips the search API can return *)

FCB == <<"F","C","B">>
YB == <<"Y","B">>
FCZ == <<"F","C","Z">>
GC == <<"G","C">>
Basel == <<"B","a","s","e","l">>
BaselYB == <<"B","a","s","e","l"," ","Y","B">>

\* teams.json: FCB and YB have keywords, FCZ has an empty keyword list, GC has
\* no entry; the derby FCB/YB is registered in one direction only, and its
\* first keyword is the text of the first query of the fixture FCB - YB
TeamsData ==
    [teams |-> (FCB :> [keywords |-> <<Basel, FCB>>])
            @@ (YB :> [keywords |-> <<YB>>])
            @@ (FCZ :> [keywords |-> <<>>]),
     match_combinations |->
        ((FCB \o <<" ","v","s"," ">> \o YB) :> [keywords |-> <<BaselYB, YB>>])]

KickOff == 2 * DAY_MS + 22 * HOUR_MS

\* spielplan.json: match.date is a calendar day, match.searchStart an instant;
\* FCZ - GC is played at home on both matchdays
Spielplan ==
    [matchdays |-> <<
        [matchday |-> 1, matches |-> <<
            [home |-> FCB, away |-> YB, date |-> 2, searchStart |-> KickOff],
            [home |-> FCZ, away |-> GC, date |-> 2]>>],
        [matchday |-> 2, matches |-> <<
            [home |-> YB, away |-> FCB, date |-> 4,
             searchStart |-> 6 * DAY_MS],
            [home |-> FCZ, away |-> GC, date |-> 4]>>]>>]

SportClip == <<"S","p","o","r","t","-","C","l","i","p">>
SuperLeagueHighlights ==
    <<"S","u","p","e","r"," ","L","e","a","g","u","e"," ",
      "H","i","g","h","l","i","g","h","t","s">>
Tagesschau == <<"T","a","g","e","s","s","c","h","a","u">>

\* a dedicated highlight clip of FCB - YB, published the day after the match
VideoSA ==
    [urn |-> "urn:srf:video:sa", title |-> <<"B","a","s","e","l"," ","-"," ","Y","B">>,
     show |-> [title |-> SportClip], date |-> 3 * DAY_MS + 12 * HOUR_MS,
     duration |-> 95000]
\* the highlights show of the round, exactly 90 s, dated by validFrom only
VideoBC ==
    [urn |-> "urn:srf:video:bc", title |-> <<"A","l","l","e"," ","S","p","i","e","l","e">>,
     description |-> <<"R","u","n","d","e"," ","m","i","t"," ","b","a","s","e","l"," ",
                       "u","n","d"," ","g","c">>,
     show |-> [title |-> SuperLeagueHighlights],
     validFrom |-> 4 * DAY_MS + 12 * HOUR_MS, duration |-> 90000]
\* a coach interview published as a Sport-Clip, dated by publishedDate only
VideoBL ==
    [urn |-> "urn:srf:video:bl",
     title |-> <<"T","r","a","i","n","e","r"," ","B","a","s","e","l">>,
     show |-> [title |-> SportClip], publishedDate |-> 5 * DAY_MS + 12 * HOUR_MS,
     duration |-> 120000]
\* a goal clip one millisecond too short
VideoShort ==
    [urn |-> "urn:srf:video:short", title |-> <<"Y","B"," ","s","i","e","g","t">>,
     show |-> [title |-> SportClip], date |-> 4 * DAY_MS + 12 * HOUR_MS,
     duration |-> 89999]
\* a highlights show without a duration
VideoNoDur ==
    [urn |-> "urn:srf:video:nodur", title |-> BaselYB,
     show |-> [title |-> SuperLeagueHighlights], date |-> 4 * DAY_MS + 12 * HOUR_MS]
\* a news item of a show that is neither Sport-Clip nor Super League
VideoOther ==
    [urn |-> "urn:srf:video:other", title |-> BaselYB,
     show |-> [title |-> Tagesschau], date |-> 4 * DAY_MS + 12 * HOUR_MS,
     duration |-> 95000]

Videos == {VideoSA, VideoBC, VideoBL, VideoShort, VideoNoDur, VideoOther}

-----------------------------------------------------------------------------
(* The functions of crawler.js *)

\* text.toLowerCase().includes(keyword.toLowerCase()) for a keyword of the team
\* or for the team name itself
findTeamInText(text, teamName, teamsData) ==
    LET textLower == toLowerCase(text)
        hasInfo == teamName \in DOMAIN teamsData.teams
                   /\ "keywords" \in DOMAIN teamsData.teams[teamName]
        keywords == IF hasInfo THEN teamsData.teams[teamName].keywords ELSE <<>>
    IN  \/ \E i \in 1..Len(keywords) : includes(textLower, toLowerCase(keywords[i]))
        \/ includes(textLower, toLowerCase(teamName))

\* video.date || video.validFrom || video.publishedDate is not undefined
HasDateStr(video) == {"date", "validFrom", "publishedDate"} \cap DOMAIN video # {}

\* video.date || video.validFrom || video.publishedDate
VideoDateStr(video) ==
    IF "date" \in DOMAIN video THEN video.date
    ELSE IF "validFrom" \in DOMAIN video THEN video.validFrom
    ELSE video.publishedDate

\* diffDays >= 0 && diffDays <= 2, with diffDays the quotient (a real number) of
\* the difference of the two local midnights by DAY_MS
isVideoDateValid(video, matchDate, zone) ==
    IF ~ HasDateStr(video) THEN FALSE
    ELSE LET videoDate == setHoursZero(zone, VideoDateStr(video))
             matchDateObj == setHoursZero(zone, ParseDateOnly(matchDate))
             diffMs == videoDate - matchDateObj
         IN  diffMs >= 0 /\ diffMs <= 2 * DAY_MS

MIN_DURATION_MS == 90 * 1000

\* a minimum compared in seconds with a duration in milliseconds
isVideoLongEnough_Seconds(video) ==
    LET duration == Get(video, "duration", 0)
    IN  duration >= 90

isVideoLongEnough(video) ==
    LET duration == Get(video, "duration", 0)
    IN  duration >= MIN_DURATION_MS

TITLE_BLACKLIST ==
    << <<"t","r","a","i","n","e","r">>,
       <<"c","o","a","c","h">>,
       <<"i","n","t","e","r","v","i","e","w">>,
       <<"p","r","e","s","s","e","k","o","n","f","e","r","e","n","z">>,
       <<"v","o","r","s","t","e","l","l","u","n","g">>,
       <<"b","i","l","a","n","z">>,
       <<"a","n","a","l","y","s","e">>,
       <<"v","o","r","s","c","h","a","u">>,
       <<"r","e","a","k","t","i","o","n">>,
       <<"s","t","i","m","m","e","n">> >>

isNotBlacklisted(video) ==
    LET title == toLowerCase(Get(video, "title", <<>>))
    IN  ~ \E i \in 1..Len(TITLE_BLACKLIST) : includes(title, TITLE_BLACKLIST[i])

getAllKeywords(teamName, teamsData) ==
    IF /\ teamName \in DOMAIN teamsData.teams
       /\ "keywords" \in DOMAIN teamsData.teams[teamName]
       /\ Len(teamsData.teams[teamName].keywords) > 0
    THEN teamsData.teams[teamName].keywords
    ELSE <<teamName>>

getDerbyKeywords(homeTeam, awayTeam, teamsData) ==
    IF "match_combinations" \notin DOMAIN teamsData THEN <<>>
    ELSE LET vs == <<" ","v","s"," ">>
             key1 == homeTeam \o vs \o awayTeam
             key2 == awayTeam \o vs \o homeTeam
             mc == teamsData.match_combinations
             combo == IF key1 \in DOMAIN mc THEN mc[key1]
                      ELSE IF key2 \in DOMAIN mc THEN mc[key2] ELSE NULL
         IN  IF combo # NULL /\ "keywords" \in DOMAIN combo
             THEN combo.keywords ELSE <<>>

\* `${matchday.matchday}_${match.home} - ${match.away}`
MatchKey(matchday, match) ==
    NumStr(matchday) \o <<"_">> \o match.home \o <<" ","-"," ">> \o match.away

\* a getMatchesToSearch without the skip of the fixtures that have a link
HasLink_Never(lnk, matchKey) == FALSE

\* links.matches[matchKey] && links.matches[matchKey].url
HasLink(lnk, matchKey) ==
    /\ matchKey \in DOMAIN lnk.matches
    /\ "url" \in DOMAIN lnk.matches[matchKey]
    /\ Len(lnk.matches[matchKey].url) > 0

MAX_SEARCH_HOURS == 6

\* the entry pushed on matchesToSearch: { matchday, ...match, matchKey }
Candidate(matchday, match) ==
    [f \in DOMAIN match \cup {"matchday", "matchKey"} |->
        IF f = "matchday" THEN matchday
        ELSE IF f = "matchKey" THEN MatchKey(matchday, match)
        ELSE match[f]]

\* a test mode that does not skip the check of searchStart
IsSearched_TestGated(matchday, match, lnk, test, clock) ==
    /\ ~ HasLink(lnk, MatchKey(matchday, match))
    /\ "searchStart" \in DOMAIN match
    /\ clock >= match.searchStart
    /\ clock <= match.searchStart + MAX_SEARCH_HOURS * 60 * 60 * 1000

\* a search window without its end
IsSearched_NoEnd(matchday, match, lnk, test, clock) ==
    /\ ~ HasLink(lnk, MatchKey(matchday, match))
    /\ \/ test # NONE
       \/ /\ "searchStart" \in DOMAIN match
          /\ clock >= match.searchStart

\* the body of the inner loop: is this match pushed on matchesToSearch
IsSearched(matchday, match, lnk, test, clock) ==
    /\ ~ HasLink(lnk, MatchKey(matchday, match))
    /\ \/ test # NONE
       \/ /\ "searchStart" \in DOMAIN match
          /\ LET searchTime == match.searchStart
                 searchEndTime == searchTime + MAX_SEARCH_HOURS * 60 * 60 * 1000
             IN  clock >= searchTime /\ clock <= searchEndTime

\* the matches of one matchday that are pushed, in order
RECURSIVE MatchesOfDay(_, _, _, _, _)
MatchesOfDay(day, k, lnk, test, clock) ==
    IF k > Len(day.matches) THEN <<>>
    ELSE (IF IsSearched(day.matchday, day.matches[k], lnk, test, clock)
          THEN <<Candidate(day.matchday, day.matches[k])>> ELSE <<>>)
         \o MatchesOfDay(day, k + 1, lnk, test, clock)

RECURSIVE MatchesFrom(_, _, _, _, _)
MatchesFrom(spielplan, d, lnk, test, clock) ==
    IF d > Len(spielplan.matchdays) THEN <<>>
    ELSE (IF test # NONE /\ spielplan.matchdays[d].matchday # test[1]
          THEN <<>>
          ELSE MatchesOfDay(spielplan.matchdays[d], 1, lnk, test, clock))
         \o MatchesFrom(spielplan, d + 1, lnk, test, clock)

getMatchesToSearch(spielplan, lnk, test, clock) ==
    MatchesFrom(spielplan, 1, lnk, test, clock)

\* the url is the fixed prefix followed by the urn
buildVideoUrl(urn) == <<"https://www.srf.ch/play/tv/-/video/-?urn=", urn>>

\* new Set([...]) spread back into an array: first occurrences, in order
RECURSIVE Dedupe(_)
Dedupe(arr) ==
    IF Len(arr) = 0 THEN <<>>
    ELSE LET front == Dedupe(SubSeq(arr, 1, Len(arr) - 1))
             last == arr[Len(arr)]
         IN  IF arrayIncludes(front, last) THEN front ELSE Append(front, last)

\* the loop "for (const kw of allKeywords) if (!combinedSearches.includes(kw)) push"
RECURSIVE PushMissing(_, _)
PushMissing(searches, keywords) ==
    IF Len(keywords) = 0 THEN searches
    ELSE PushMissing(IF arrayIncludes(searches, Head(keywords)) THEN searches
                     ELSE Append(searches, Head(keywords)),
                     Tail(keywords))

\* crawl: combinedSearches of one match
BuildSearches(match, teamsData) ==
    LET homeKeywords == getAllKeywords(match.home, teamsData)
        awayKeywords == getAllKeywords(match.away, teamsData)
        derbyKeywords == getDerbyKeywords(match.home, match.away, teamsData)
        first == <<homeKeywords[1] \o <<" ">> \o awayKeywords[1]>>
        allKeywords == Dedupe(homeKeywords \o awayKeywords)
    IN  PushMissing(first \o derbyKeywords, allKeywords)

\* video.show?.title || ''
ShowTitle(video) ==
    IF "show" \in DOMAIN video /\ "title" \in DOMAIN video.show
    THEN video.show.title ELSE <<>>

\* `${title} ${description} ${showTitle}`
FullText(video) ==
    Get(video, "title", <<>>) \o <<" ">> \o Get(video, "description", <<>>)
        \o <<" ">> \o ShowTitle(video)

\* the condition of line 298: (homeFound || awayFound) && dateValid && longEnough
PassesChecks(video, match, teamsData, zone) ==
    /\ \/ findTeamInText(FullText(video), match.home, teamsData)
       \/ findTeamInText(FullText(video), match.away, teamsData)
    /\ isVideoDateValid(video, match.date, zone)
    /\ isVideoLongEnough(video)

\* showTitle === 'Sport-Clip'
IsSportClip(video) == ShowTitle(video) = SportClip

\* showTitle.includes('Super League')
IsSuperLeague(video) ==
    includes(ShowTitle(video), <<"S","u","p","e","r"," ","L","e","a","g","u","e">>)

\* every entry getMatchesToSearch can push for the schedule
AllCandidates ==
    UNION {{Candidate(Spielplan.matchdays[d].matchday,
                      Spielplan.matchdays[d].matches[k]) :
                k \in 1..Len(Spielplan.matchdays[d].matches)} :
           d \in 1..Len(Spielplan.matchdays)}

\* what a video is for a match: "Standalone", "Sendung" or "none", by the
\* conditions of lines 298-306 (computed once for every video, match and zone)
Classify(video, match, zone) ==
    IF ~ PassesChecks(video, match, TeamsData, zone) THEN "none"
    ELSE IF IsSportClip(video) THEN "Standalone"
    ELSE IF IsSuperLeague(video) THEN "Sendung"
    ELSE "none"

ClassTable ==
    [m \in AllCandidates, v \in Videos, z \in TimeZones |-> Classify(v, m, z)]

\* the loop over one result list, from position k with the matches kept so far;
\* the loop is left as soon as standaloneMatch is set
RECURSIVE ScanFrom(_, _, _, _, _)
ScanFrom(list, k, sendungMatch, match, zone) ==
    IF k > Len(list)
    THEN [standaloneMatch |-> NULL, sendungMatch |-> sendungMatch]
    ELSE LET video == list[k]
             class == ClassTable[match, video, zone]
         IN  IF class = "Standalone"
             THEN [standaloneMatch |-> video, sendungMatch |-> sendungMatch]
             ELSE IF class = "Sendung" /\ sendungMatch = NULL
             THEN ScanFrom(list, k + 1, video, match, zone)
             ELSE ScanFrom(list, k + 1, sendungMatch, match, zone)

ScanResults(list, match, zone) == ScanFrom(list, 1, NULL, match, zone)

\* combinedSearches of every match (computed once)
SearchesTable == [m \in AllCandidates |-> BuildSearches(m, TeamsData)]

\* lines 312-318: the winner after one result list; found is foundVideo before
Winner(scan, found, type) ==
    IF scan.standaloneMatch # NULL
    THEN [foundVideo |-> scan.standaloneMatch, videoType |-> "Standalone"]
    ELSE IF scan.sendungMatch # NULL /\ found = NULL
    THEN [foundVideo |-> scan.sendungMatch, videoType |-> "Sendung"]
    ELSE [foundVideo |-> found, videoType |-> type]

\* a loop over combinedSearches that is never left early
StopsSearching_Never(found) == FALSE

\* "if (foundVideo) break" at the head of the loop over combinedSearches
StopsSearching(found) == found # NULL

\* the entry written to links.matches (an undefined title is not serialised)
LinkEntry(video, type, clock) ==
    LET entry == [url |-> buildVideoUrl(video.urn), foundAt |-> clock,
                  urn |-> video.urn, type |-> type]
    IN  IF "title" \in DOMAIN video
        THEN [f \in DOMAIN entry \cup {"title"} |->
                IF f = "title" THEN video.title ELSE entry[f]]
        ELSE entry

\* a store that keeps the newest link only: links.matches = { [matchKey]: entry }
SetLink_Replace(lnk, matchKey, entry) ==
    [lnk EXCEPT !.matches = (matchKey :> entry)]

\* links.matches[matchKey] = entry
SetLink(lnk, matchKey, entry) ==
    [lnk EXCEPT !.matches =
        [k \in DOMAIN lnk.matches \cup {matchKey} |->
            IF k = matchKey THEN entry ELSE lnk.matches[k]]]

-----------------------------------------------------------------------------
(* The search API *)

MaxResults == 2

RECURSIVE ListsUpTo(_)
ListsUpTo(n) ==
    IF n = 0 THEN {<<>>}
    ELSE LET shorter == ListsUpTo(n - 1)
         IN  shorter \cup {Append(l, v) : l \in {x \in shorter : Len(x) = n - 1},
                                          v \in Videos}

\* what one call of fetch and response.json() can end with
Responses ==
    {[kind |-> "ok", list |-> l] : l \in ListsUpTo(MaxResults)}
        \cup {[kind |-> "nolist"],    \* a payload without searchResultMediaList
              [kind |-> "status"],    \* response.ok is false
              [kind |-> "reject"],    \* fetch rejects: no connection
              [kind |-> "badjson"]}   \* response.json() rejects: not JSON

\* searchVideos throws when fetch or response.json() rejects
SearchThrows(resp) == resp.kind \in {"reject", "badjson"}

\* the list searchVideos returns when it returns
searchVideos(resp) == IF resp.kind = "ok" THEN resp.list ELSE <<>>

-----------------------------------------------------------------------------
(* The runs *)

\* the command lines: no flag, --test alone, --test <matchday>
CommandLines ==
    {[test |-> FALSE], [test |-> TRUE]}
        \cup {[test |-> TRUE, arg |-> n] : n \in {1, 2}}

DefaultTestMatchday == 22

\* lines 215-223
TestMatchdayOf(argv) ==
    IF ~ argv.test THEN NONE
    ELSE IF "arg" \in DOMAIN argv THEN <<argv.arg>>
    ELSE <<DefaultTestMatchday>>

\* the instants at which a run may start: the two ends of the search window of
\* the first fixture and the millisecond after it (the search window of the
\* fixture of matchday 2 is still in the future at all of them)
ClockValues ==
    {KickOff, KickOff + MAX_SEARCH_HOURS * HOUR_MS,
     KickOff + MAX_SEARCH_HOURS * HOUR_MS + 1}

\* links.json before the first run: no file, or a file in which somebody has
\* prepared an entry without a url
InitialStores ==
    {NULL,
     [lastUpdated |-> 0,
      matches |-> (MatchKey(1, [home |-> FCZ, away |-> GC]) :> [url |-> <<>>])]}

\* no process is running: the variables of crawl() do not exist
NoProcess ==
    /\ testMatchday' = NONE
    /\ links' = NULL
    /\ matchesToSearch' = <<>>
    /\ mi' = 0
    /\ combinedSearches' = <<>>
    /\ qi' = 0
    /\ results' = NULL
    /\ foundVideo' = NULL
    /\ videoType' = "null"
    /\ foundCount' = 0
    /\ issued' = <<>>

\* no process has run yet
NeverRun ==
    /\ pc = "idle"
    /\ exitCode = NONE
    /\ testMatchday = NONE
    /\ links = NULL
    /\ matchesToSearch = <<>>
    /\ mi = 0
    /\ combinedSearches = <<>>
    /\ qi = 0
    /\ results = NULL
    /\ foundVideo = NULL
    /\ videoType = "null"
    /\ foundCount = 0
    /\ issued = <<>>

Init ==
    /\ tz \in TimeZones
    /\ now \in ClockValues
    /\ store \in InitialStores
    /\ NeverRun
    /\ probe = NULL

\* process.exit(code), or the end of crawl()
Exit(code) ==
    /\ pc' = "idle"
    /\ exitCode' = <<code>>
    /\ NoProcess

\* the outer loop reaches the match at position k: its searches are built and
\* the first one is sent
BeginMatch(k, list) ==
    /\ mi' = k
    /\ combinedSearches' = SearchesTable[list[k]]
    /\ qi' = 1
    /\ issued' = <<1>>
    /\ results' = NULL
    /\ foundVideo' = NULL
    /\ videoType' = "null"
    /\ pc' = "fetch"

\* lines 202-212: links.json, or an empty store when there is no file
LoadLinks(clock) ==
    IF store = NULL THEN [lastUpdated |-> clock, matches |-> <<>>] ELSE store

\* crawl() from its start to the first await: the files are loaded, the
\* matches to search are selected and the first search is sent.
\* configLoaded is false when teams.json or spielplan.json cannot be read.
StartRun(argv, clock, configLoaded) ==
    /\ pc = "idle"
    /\ clock >= now
    /\ now' = clock
    /\ UNCHANGED <<tz, store, probe>>
    /\ IF ~ configLoaded
       THEN Exit(1)
       ELSE LET loaded == LoadLinks(clock)
                test == TestMatchdayOf(argv)
                list == getMatchesToSearch(Spielplan, loaded, test, clock)
            IN  IF Len(list) = 0
                THEN Exit(0)
                ELSE /\ testMatchday' = test
                     /\ links' = loaded
                     /\ matchesToSearch' = list
                     /\ foundCount' = 0
                     /\ exitCode' = NONE
                     /\ BeginMatch(1, list)

\* the response of the search API arrives: searchVideos returns or throws, the
\* result list is scanned and the winner of this query is kept; then the
\* 200 ms timer is started
Search(resp) ==
    /\ pc = "fetch"
    /\ UNCHANGED <<tz, now, store, probe>>
    /\ IF SearchThrows(resp)
       THEN Exit(1)
       ELSE LET list == searchVideos(resp)
                scan == ScanResults(list, matchesToSearch[mi], tz)
                won == Winner(scan, foundVideo, videoType)
            IN  /\ results' = list
                /\ foundVideo' = won.foundVideo
                /\ videoType' = won.videoType
                /\ pc' = "pause"
                /\ UNCHANGED <<exitCode, testMatchday, links, matchesToSearch, mi,
                               combinedSearches, qi, foundCount, issued>>

\* the timer fires: the next search of the match is sent, or the match is
\* finished (its link is recorded) and the next match begins, or the run ends
\* and links.json is written if a link was found
AfterPause ==
    /\ pc = "pause"
    /\ UNCHANGED <<tz, now, probe>>
    /\ IF qi < Len(combinedSearches) /\ ~ StopsSearching(foundVideo)
       THEN /\ qi' = qi + 1
            /\ issued' = Append(issued, qi + 1)
            /\ results' = NULL
            /\ pc' = "fetch"
            /\ UNCHANGED <<store, exitCode, testMatchday, links, matchesToSearch,
                           mi, combinedSearches, foundVideo, videoType, foundCount>>
       ELSE LET match == matchesToSearch[mi]
                found == foundVideo # NULL
                newLinks == IF found
                            THEN SetLink(links, match.matchKey,
                                         LinkEntry(foundVideo, videoType, now))
                            ELSE links
                newCount == IF found THEN foundCount + 1 ELSE foundCount
            IN  IF mi < Len(matchesToSearch)
                THEN /\ links' = newLinks
                     /\ foundCount' = newCount
                     /\ BeginMatch(mi + 1, matchesToSearch)
                     /\ UNCHANGED <<store, exitCode, testMatchday, matchesToSearch>>
                ELSE /\ store' = IF newCount > 0
                                 THEN [newLinks EXCEPT !.lastUpdated = now]
                                 ELSE store
                     /\ Exit(0)

Next ==
    \/ \E argv \in CommandLines, clock \in ClockValues, configLoaded \in BOOLEAN :
            StartRun(argv, clock, configLoaded)
    \/ \E resp \in Responses : Search(resp)
    \/ AfterPause

Spec == Init /\ [][Next]_vars

-----------------------------------------------------------------------------
(* Properties of the runs *)

\* the link files a state holds: links.json on disk and the copy in memory
LinkFiles == {store, links} \ {NULL}

\* the store holds a link with a non-empty url for the key
StoreHasUrl(key) ==
    /\ store # NULL
    /\ key \in DOMAIN store.matches
    /\ "url" \in DOMAIN store.matches[key]
    /\ store.matches[key].url # <<>>

\* the clip of the search API with the given urn
VideoOfUrn(urn) == CHOOSE v \in Videos : v.urn = urn

\* the urns of the links a file holds
UrnsIn(file) ==
    {file.matches[k].urn : k \in {x \in DOMAIN file.matches :
                                    "urn" \in DOMAIN file.matches[x]}}

\* the title contains a term of the blacklist, whatever the case of its letters
TitleBlacklisted(video) == ~ isNotBlacklisted(video)

\* C1: a clip whose title contains a term of the title blacklist is never the
\* accepted match of a fixture and is never written to the link store.
C1_BlacklistedNeverAccepted ==
    /\ foundVideo # NULL => ~ TitleBlacklisted(foundVideo)
    /\ \A file \in LinkFiles : \A urn \in UrnsIn(file) :
            ~ TitleBlacklisted(VideoOfUrn(urn))

\* C2: while a run is under way, no fixture that has a link with a non-empty
\* url in the store (the store is rewritten only when the run ends, so it is
\* the store the run loaded) is among the matches to search, and the search in
\* flight is not for such a fixture.
C2_ResolvedNeverSearched ==
    pc # "idle" =>
        /\ \A i \in 1..Len(matchesToSearch) :
                ~ StoreHasUrl(matchesToSearch[i].matchKey)
        /\ ~ StoreHasUrl(matchesToSearch[mi].matchKey)

\* a test run of matchday 1 after the first fixture of the matchday was resolved
C2_Witness ==
    /\ pc = "fetch"
    /\ testMatchday = <<1>>
    /\ StoreHasUrl(MatchKey(1, [home |-> FCB, away |-> YB]))

\* C3: whatever the search call of one query ends with (a non-success response,
\* a transport failure, a malformed payload), the run goes on: the step that
\* receives the response never ends the process.
C3_FailedSearchDoesNotAbort == [][pc = "fetch" => pc' = "pause"]_vars

\* C4: the query list built for a fixture contains no query string twice.
C4_NoDuplicateQueries ==
    \A i, j \in 1..Len(combinedSearches) :
        combinedSearches[i] = combinedSearches[j] => i = j


\* the match whose queries are being searched
CurrentMatch == matchesToSearch[mi]

\* ClipValidator.isAcceptable of the specification: team mention, date window,
\* minimum duration and title blacklist
AcceptableTable ==
    [m \in AllCandidates, v \in Videos, z \in TimeZones |->
        PassesChecks(v, m, TeamsData, z) /\ ~ TitleBlacklisted(v)]

\* the positions of the acceptable clips of the last result list whose show
\* label makes them Standalone
AcceptableStandaloneAt ==
    {i \in 1..Len(results) :
        AcceptableTable[CurrentMatch, results[i], tz] /\ IsSportClip(results[i])}

\* the positions of the acceptable clips of the last result list whose show
\* label makes them Broadcast
AcceptableBroadcastAt ==
    {i \in 1..Len(results) :
        AcceptableTable[CurrentMatch, results[i], tz] /\ IsSuperLeague(results[i])}

Min(S) == CHOOSE i \in S : \A j \in S : i <= j

\* C5: after one result list has been scanned, the winner is the first
\* acceptable Standalone clip of the list if it has one, and else the first
\* acceptable Broadcast clip if it has one.
C5_StandalonePreferred ==
    pc = "pause" =>
        LET standalone == AcceptableStandaloneAt
            broadcast == AcceptableBroadcastAt
        IN  /\ standalone # {} =>
                /\ foundVideo = results[Min(standalone)]
                /\ videoType = "Standalone"
            /\ (standalone = {} /\ broadcast # {}) =>
                /\ foundVideo = results[Min(broadcast)]
                /\ videoType = "Sendung"

\* C6: the queries of a fixture are searched in list order, each position once;
\* a search is in flight only while the fixture has no winner, and a winner is
\* a clip that the scan of the last searched query took from its result list.
C6_FirstWinningQueryDecides ==
    pc # "idle" =>
        /\ qi <= Len(combinedSearches)
        /\ issued = [i \in 1..qi |-> i]
        /\ pc = "fetch" => foundVideo = NULL
        /\ (pc = "pause" /\ foundVideo # NULL) =>
                \E i \in 1..Len(results) :
                    /\ results[i] = foundVideo
                    /\ ClassTable[CurrentMatch, foundVideo, tz] = videoType

\* a Broadcast clip has won at a query that is not the last of the fixture
C6_Witness ==
    /\ pc = "pause"
    /\ videoType = "Sendung"
    /\ qi < Len(combinedSearches)
    /\ qi > 1

\* the checks other than the duration: team mention, date window, show label
OtherChecksTable ==
    [m \in AllCandidates, v \in Videos, z \in TimeZones |->
        /\ \/ findTeamInText(FullText(v), m.home, TeamsData)
           \/ findTeamInText(FullText(v), m.away, TeamsData)
        /\ isVideoDateValid(v, m.date, z)
        /\ IsSportClip(v) \/ IsSuperLeague(v)]

DurationOf(video) == IF "duration" \in DOMAIN video THEN video.duration ELSE 0

\* C8: a clip shorter than 90000 ms (or without a duration) is never the
\* accepted match and is never written to a link file; a clip of exactly
\* 90000 ms that passes the other checks is accepted.
C8_ShortNeverAccepted ==
    /\ foundVideo # NULL => DurationOf(foundVideo) >= 90000
    /\ \A file \in LinkFiles : \A urn \in UrnsIn(file) :
            DurationOf(VideoOfUrn(urn)) >= 90000
    /\ pc = "pause" =>
            \A v \in Videos :
                (/\ results = <<v>>
                 /\ DurationOf(v) = 90000
                 /\ OtherChecksTable[CurrentMatch, v, tz]) => foundVideo = v

\* a result list held a clip that is too short, or has no duration, and passes
\* every other check for the fixture
C8_Witness ==
    /\ pc = "pause"
    /\ \E i \in 1..Len(results) :
            /\ DurationOf(results[i]) < 90000
            /\ OtherChecksTable[CurrentMatch, results[i], tz]
    /\ \E i \in 1..Len(results) :
            /\ "duration" \notin DOMAIN results[i]
            /\ OtherChecksTable[CurrentMatch, results[i], tz]

-----------------------------------------------------------------------------
(* isVideoDateValid on its own *)

MaxDay == 6

\* the dates of the fixtures checked: before, at and after the end of
\* daylight saving time
MatchDates == 2..4

\* the instants a clip can be dated at: four times of the day on every day
ClipInstants ==
    {d * DAY_MS + h * HOUR_MS : d \in 1..MaxDay, h \in {0, 1, 12, 23}}

\* the clips checked: any instant, or nothing, in the field date, and nothing
\* or noon of day 2 or of day 5 in validFrom and in publishedDate
DatedVideo(date, validFrom, publishedDate) ==
    [f \in {x \in {"date"} : date # NONE}
        \cup {x \in {"validFrom"} : validFrom # NONE}
        \cup {x \in {"publishedDate"} : publishedDate # NONE} |->
        IF f = "date" THEN date[1]
        ELSE IF f = "validFrom" THEN validFrom[1] ELSE publishedDate[1]]

OtherInstants ==
    {NONE, <<2 * DAY_MS + 12 * HOUR_MS>>, <<5 * DAY_MS + 12 * HOUR_MS>>}

InitDate ==
    /\ tz \in TimeZones
    /\ now = KickOff
    /\ store = NULL
    /\ NeverRun
    /\ \E date \in {NONE} \cup {<<t>> : t \in ClipInstants},
          validFrom \in OtherInstants, publishedDate \in OtherInstants,
          matchDate \in MatchDates :
            probe = [video |-> DatedVideo(date, validFrom, publishedDate),
                     matchDate |-> matchDate, done |-> FALSE, valid |-> FALSE]

\* isVideoDateValid(video, match.date) is called
CheckDate ==
    /\ probe.done = FALSE
    /\ probe' = [probe EXCEPT !.done = TRUE,
                              !.valid = isVideoDateValid(probe.video,
                                                         probe.matchDate, tz)]
    /\ UNCHANGED <<tz, now, store, pc, exitCode, testMatchday, links,
                   matchesToSearch, mi, combinedSearches, qi, results, foundVideo,
                   videoType, foundCount, issued>>

NextDate == CheckDate

SpecDate == InitDate /\ [][NextDate]_vars

\* the calendar day, in the zone of the host, of an instant
CalendarDay(zone, t) == (t + LocalTZA(zone, t, TRUE)) \div DAY_MS

\* C7: a clip passes the date check iff it has a date field and the calendar
\* day of the first present one of date, validFrom, publishedDate is 0, 1 or 2
\* days after the date of the fixture.
C7_DateWindow ==
    probe.done =>
        (probe.valid <=>
            /\ HasDateStr(probe.video)
            /\ CalendarDay(tz, VideoDateStr(probe.video)) - probe.matchDate
                    \in {0, 1, 2})

-----------------------------------------------------------------------------
(* getMatchesToSearch on its own, run after run *)

\* a schedule with, on matchday 5, a fixture whose search starts at KickOff,
\* one without searchStart and one whose search starts on day 6, and on
\* matchday 6 a fixture whose search starts three hours after KickOff
GateSpielplan ==
    [matchdays |-> <<
        [matchday |-> 5, matches |-> <<
            [home |-> FCB, away |-> YB, date |-> 2, searchStart |-> KickOff],
            [home |-> FCZ, away |-> GC, date |-> 2],
            [home |-> YB, away |-> FCZ, date |-> 2,
             searchStart |-> 6 * DAY_MS]>>],
        [matchday |-> 6, matches |-> <<
            [home |-> YB, away |-> FCB, date |-> 4,
             searchStart |-> KickOff + 3 * HOUR_MS]>>]>>]

\* the fixtures of the schedule, each with its matchday
GateFixtures ==
    UNION {{[matchday |-> GateSpielplan.matchdays[d].matchday,
             match |-> GateSpielplan.matchdays[d].matches[k]] :
                k \in 1..Len(GateSpielplan.matchdays[d].matches)} :
           d \in 1..Len(GateSpielplan.matchdays)}

KeyOf(f) == MatchKey(f.matchday, f.match)

\* links.json: no file, or for every fixture no entry, an entry with an empty
\* url, or an entry with a url
GateStores ==
    {NULL} \cup
    {[lastUpdated |-> 0,
      matches |-> [k \in {KeyOf(f) : f \in with \cup without} |->
                    IF k \in {KeyOf(f) : f \in with}
                    THEN [url |-> buildVideoUrl("urn:srf:video:sa")]
                    ELSE [url |-> <<>>]]] :
        with \in SUBSET GateFixtures, without \in SUBSET GateFixtures}

\* the instants of the runs: around the ends of the two search windows that
\* begin at KickOff, and in the window that begins on day 6
GateClocks ==
    {KickOff - 1, KickOff,
     KickOff + MAX_SEARCH_HOURS * HOUR_MS, KickOff + MAX_SEARCH_HOURS * HOUR_MS + 1,
     KickOff + (MAX_SEARCH_HOURS + 3) * HOUR_MS + 1, 6 * DAY_MS}

GateCommandLines ==
    {[test |-> FALSE], [test |-> TRUE]}
        \cup {[test |-> TRUE, arg |-> n] : n \in {5, 6}}

InitGate ==
    /\ tz \in {"UTC"}
    /\ now \in GateClocks
    /\ store \in GateStores
    /\ NeverRun
    /\ probe = [done |-> FALSE, test |-> NONE, out |-> <<>>]

\* a run starts at the instant clock and selects its matches to search
Gate(argv, clock) ==
    /\ clock >= now
    /\ now' = clock
    /\ probe' = [done |-> TRUE, test |-> TestMatchdayOf(argv),
                 out |-> getMatchesToSearch(GateSpielplan, LoadLinks(clock),
                                            TestMatchdayOf(argv), clock)]
    /\ UNCHANGED <<tz, store, pc, exitCode, testMatchday, links, matchesToSearch,
                   mi, combinedSearches, qi, results, foundVideo, videoType,
                   foundCount, issued>>

NextGate == \E argv \in GateCommandLines, clock \in GateClocks : Gate(argv, clock)

SpecGate == InitGate /\ [][NextGate]_vars

\* the keys of the matches a run has selected
KeysOf(list) == {list[i].matchKey : i \in 1..Len(list)}

\* C9: in test mode for matchday N the matches to search are exactly the
\* fixtures of matchday N without a link with a non-empty url, each once,
\* whatever their searchStart.
C9_TestModeCandidates ==
    (probe.done /\ probe.test # NONE) =>
        LET unresolved == {f \in GateFixtures :
                            f.matchday = probe.test[1] /\ ~ StoreHasUrl(KeyOf(f))}
        IN  /\ KeysOf(probe.out) = {KeyOf(f) : f \in unresolved}
            /\ Len(probe.out) = Cardinality(unresolved)
            /\ \A i \in 1..Len(probe.out) : probe.out[i].matchday = probe.test[1]

\* a test run of matchday 5 selects the fixture whose window has closed, the
\* fixture without searchStart and the fixture whose window is in the future
C9_Witness ==
    /\ probe.done
    /\ probe.test = <<5>>
    /\ now = KickOff + MAX_SEARCH_HOURS * HOUR_MS + 1
    /\ Len(probe.out) = 3

\* the search window of a fixture is open, or over, at an instant
WindowOpen(f, clock) ==
    /\ "searchStart" \in DOMAIN f.match
    /\ f.match.searchStart <= clock
    /\ clock <= f.match.searchStart + 6 * HOUR_MS

WindowOver(f, clock) ==
    /\ "searchStart" \in DOMAIN f.match
    /\ clock > f.match.searchStart + 6 * HOUR_MS

\* C10, the candidates of a normal run: an unresolved fixture is selected iff
\* it has a searchStart and searchStart <= now <= searchStart + 6 hours
C10_Candidates ==
    (probe.done /\ probe.test = NONE) =>
        \A f \in GateFixtures :
            ~ StoreHasUrl(KeyOf(f)) =>
                (KeyOf(f) \in KeysOf(probe.out) <=> WindowOpen(f, now))

\* C10, the later runs: a fixture whose window is over is not selected by any
\* normal run that starts from then on
C10_NeverAgain ==
    \A f \in GateFixtures :
        WindowOver(f, now) =>
            ~ (probe'.done /\ probe'.test = NONE /\ KeyOf(f) \in KeysOf(probe'.out))

\* C10: in normal mode an unresolved fixture is a candidate iff its search
\* window is open, and once the window is over it is never a candidate again.
C10_NormalModeWindow == [] C10_Candidates /\ [][C10_NeverAgain]_vars

\* a normal run in the millisecond after the end of the window of the first
\* fixture selects the fixture of matchday 6 only
C10_Witness ==
    /\ probe.done
    /\ probe.test = NONE
    /\ now = KickOff + MAX_SEARCH_HOURS * HOUR_MS + 1
    /\ store = NULL
    /\ Len(probe.out) = 1

-----------------------------------------------------------------------------
(* Properties of the link store over the runs *)

\* the keys of the fixtures of the schedule
FixtureKeys == {c.matchKey : c \in AllCandidates}

\* the file holds a link with a non-empty url for the key
FileHasUrl(file, key) ==
    /\ file # NULL
    /\ key \in DOMAIN file.matches
    /\ "url" \in DOMAIN file.matches[key]
    /\ file.matches[key].url # <<>>

\* the key of FCZ - GC on the given matchday
KeyFczGc(matchday) == MatchKey(matchday, [home |-> FCZ, away |-> GC])

\* C11: once the link store holds a link with a non-empty url for a fixture
\* key, no step of this run or of a later run overwrites or removes that entry
\* (url, urn, title, type, foundAt): neither in links.json nor in the copy the
\* running process holds, also when the schedule has the same home/away pairing
\* on several matchdays.
C11_ResolvedLinkKept ==
    [][\A key \in FixtureKeys :
          /\ FileHasUrl(store, key) =>
                /\ FileHasUrl(store', key)
                /\ store'.matches[key] = store.matches[key]
          /\ (FileHasUrl(links, key) /\ links' # NULL) =>
                /\ FileHasUrl(links', key)
                /\ links'.matches[key] = links.matches[key]]_vars

\* FCZ - GC of matchday 1 was resolved by one run and FCZ - GC of matchday 2 by
\* a later one: links.json holds both links
C11_Witness ==
    /\ pc = "idle"
    /\ FileHasUrl(store, KeyFczGc(1))
    /\ FileHasUrl(store, KeyFczGc(2))
    /\ store.matches[KeyFczGc(1)].foundAt < store.matches[KeyFczGc(2)].foundAt

\* the fixtures the running process has resolved so far: the links it has
\* recorded and the clip it holds for the match at hand once its searches are over
ResolvedInRun ==
    foundCount + (IF pc = "pause" /\ foundVideo # NULL THEN 1 ELSE 0)

\* the step ends a process
RunEnds == pc # "idle" /\ pc' = "idle"

\* C12: links.json is written at most once in a run, by the step that ends the
\* run after the last match to search was processed, and a run writes it if and
\* only if it has resolved at least one fixture; a run that resolves none
\* (a run without matches to search included) leaves links.json as it was,
\* lastUpdated included.
C12_StoreWrittenIffResolved ==
    [][/\ store' # store =>
            /\ pc = "pause"
            /\ RunEnds
            /\ mi = Len(matchesToSearch)
       /\ RunEnds => (store' # store <=> ResolvedInRun > 0)]_vars

\* C13: the exit status of a run is non-zero only when teams.json or
\* spielplan.json cannot be loaded: a run in which both load ends with exit
\* status 0, whatever the search API returns or however it fails, and whether
\* or not a fixture is resolved.
C13_ExitStatus ==
    [][/\ RunEnds => exitCode' = <<0>>
       /\ exitCode' = <<1>> =>
            \E argv \in CommandLines, clock \in ClockValues :
                StartRun(argv, clock, FALSE)]_vars

====
